---- MODULE Spec2Model ----
(***************************************************************************)
(* A model of bevy_simon (src/src/main.rs): the scene state machine, the   *)
(* pattern engine and the pointer hover tracker, run by the chained Update *)
(* systems of ShmPlugin one system at a time.                              *)
(*                                                                         *)
(* Lengths and coordinates are integers in half pixels (U(x) = 2x), so the *)
(* half extents w/2 of every rectangle of the program are exact.  Time is  *)
(* counted in ticks of 1/TicksPerSecond seconds.  Materials, text and      *)
(* audio playback are presentation and are not modelled, except for the    *)
(* cue a playback step emits (cue_log).                                    *)
(***************************************************************************)
EXTENDS Integers, Sequences, FiniteSets, TLC

VARIABLES
    pc,             \* the system of the frame that runs next
    current_scene,  \* CurrentScene
    next_scene,     \* NextScene
    state,          \* GameState: pattern, interactive, max_idx, idx
    timer,          \* PatternAnimationTimer: elapsed ticks, and whether the last tick finished
    high_score,     \* HighScore
    file,           \* the contents of SAVE_PATH, or NoFile
    mouse_pos,      \* ShmMousePosition.pos: a point, or None
    released,       \* ButtonInput::just_released(MouseButton::Left) this frame
    entities,       \* the world's entities, in spawn order
    cue_log,        \* history: the cues playback emitted in this round
    press_log,      \* history: the presses accepted as correct in this round
    prev_hovered,   \* history: is_hovered of every entity when the frame began
    cycles,         \* history: teardown/setup cycles run in this frame
    saves           \* history: the values save_score was called with, per Score entry

vars == <<pc, current_scene, next_scene, state, timer, high_score, file, mouse_pos,
          released, entities, cue_log, press_log, prev_hovered, cycles, saves>>

----------------------------------------------------------------------------
(* Bounds of the model *)

\* A playthrough started from level 0 is explored up to this level.
MaxLevel == 3
\* The playthrough of SpecLate is picked up at this level.
LateLevel == 254
\* Resolution of time: ticks per second.
TicksPerSecond == 2
\* Largest frame delta, in ticks.
MaxDelta == 2
\* The window's resolution in pixels (Bevy's default window).
WindowWidth == 1280
WindowHeight == 720
\* The longest text SpecPersist finds stored in SAVE_PATH.
MaxTextLen == 3
\* SpecHover: the largest half extent of a rectangle, in pixels, and the largest
\* coordinate of a triangle's vertices.
RectMax == 3
TriMax == 5

(* Program constants *)

\* `for idx in 0..255`: the number of symbols setup_game pushes.
PatternLen == 255
\* u8::MAX
U8Max == 255
\* `rand::random::<u8>() % 4`
NumSymbols == 4
\* Timer::from_seconds(1.0, TimerMode::Repeating)
TimerSeconds == 1

TimerDuration == TimerSeconds * TicksPerSecond
Deltas == 1..MaxDelta

\* A length of x pixels, in half pixels.
U(x) == 2 * x

\* Timer::from_seconds, and Timer::reset
TimerReset == [elapsed |-> 0, finished |-> FALSE]

None == <<>>
NoFile == [exists |-> FALSE, text |-> <<>>]

Scene == {"Startup", "ClickToStart", "MainMenu", "Game", "Score", "Credits"}

----------------------------------------------------------------------------
(* GameState *)

GameStateDefault == [pattern |-> <<>>, interactive |-> FALSE, max_idx |-> 0, idx |-> 0]

\* The outcomes of rand::random::<u8>() % 4 drawn by setup_game: periodic patterns.
PatternSeeds == {<<0, 2, 1>>, <<3, 3, 1, 0>>}
GeneratedPattern(seed) == [i \in 1..PatternLen |-> seed[((i - 1) % Len(seed)) + 1] % NumSymbols]
Patterns == {GeneratedPattern(seed) : seed \in PatternSeeds}

\* The levels from which the model lets a round advance.
ExploredLevel(m) == m < MaxLevel \/ m >= LateLevel

----------------------------------------------------------------------------
(* MouseHoverTracker and the entities *)

Rectangle(hx, hy) == [type |-> "Rectangle", a |-> <<hx, hy>>, b |-> <<0, 0>>, c |-> <<0, 0>>]
Triangle(a, b, c) == [type |-> "Triangle", a |-> a, b |-> b, c |-> c]
NoShape == [type |-> "None", a |-> <<0, 0>>, b |-> <<0, 0>>, c |-> <<0, 0>>]

\* An entity without tracker, button or pattern index.
Plain(kind) ==
    [kind |-> kind, scene_object |-> TRUE, tracker |-> FALSE, shape |-> NoShape,
     is_hovered |-> FALSE, is_just_hovered |-> FALSE, is_just_unhovered |-> FALSE,
     translation |-> <<0, 0>>, hover_disable |-> FALSE, pattern_idx |-> -1,
     button_scene |-> "None", visible |-> TRUE]

\* Faulty variant: a new rectangle tracker starts hovered.
from_rect_Hovered(w, h) ==
    [shape |-> Rectangle(w \div 2, h \div 2),
     is_hovered |-> TRUE, is_just_hovered |-> FALSE, is_just_unhovered |-> FALSE]

from_rect(w, h) ==
    [shape |-> Rectangle(w \div 2, h \div 2),
     is_hovered |-> FALSE, is_just_hovered |-> FALSE, is_just_unhovered |-> FALSE]

from_triangle(a, b, c) ==
    [shape |-> Triangle(a, b, c),
     is_hovered |-> FALSE, is_just_hovered |-> FALSE, is_just_unhovered |-> FALSE]

WithTracker(e, t) ==
    [e EXCEPT !.tracker = TRUE, !.shape = t.shape, !.is_hovered = t.is_hovered,
              !.is_just_hovered = t.is_just_hovered,
              !.is_just_unhovered = t.is_just_unhovered]

\* Faulty variant: the edge flags are not cleared when is_hovered is unchanged.
set_hovered_KeepsFlags(e, is_hovered) ==
    IF e.is_hovered # is_hovered
    THEN [e EXCEPT !.is_hovered = is_hovered,
                   !.is_just_hovered = is_hovered,
                   !.is_just_unhovered = ~is_hovered]
    ELSE e

set_hovered(e, is_hovered) ==
    IF e.is_hovered # is_hovered
    THEN [e EXCEPT !.is_hovered = is_hovered,
                   !.is_just_hovered = is_hovered,
                   !.is_just_unhovered = ~is_hovered]
    ELSE [e EXCEPT !.is_just_hovered = FALSE, !.is_just_unhovered = FALSE]

\* x * (1 / area) > 0, for a finite reciprocal: x and area have the same sign.
Positive(x, area) == (x > 0 /\ area > 0) \/ (x < 0 /\ area < 0)

Abs(x) == IF x < 0 THEN -x ELSE x

(* f32 arithmetic on positive values.  A value is [m, e], standing for m * 2^-e  *)
(* with F32Bits significant bits: 2^(F32Bits - 1) <= m < 2^F32Bits.  Every      *)
(* integer the operators below compute stays under 2^31 for operands whose      *)
(* magnitude is in 1..F32Range.                                                  *)

\* The precision of an f32: the bits of its significand.
F32Bits == 24
F32Range == 2^(30 - F32Bits)
InF32Range(x) == Abs(x) <= F32Range

RECURSIVE RoundF32(_, _, _)
\* The f32 nearest to n * 2^-e (plus a fraction of its last place when sticky), ties
\* to even.  Scaling n up is exact, so sticky implies n >= 2^F32Bits.
RoundF32(n, e, sticky) ==
    IF n < 2^(F32Bits - 1) THEN RoundF32(2 * n, e + 1, sticky)
    ELSE IF n >= 2^(F32Bits + 1) THEN RoundF32(n \div 2, e - 1, sticky \/ n % 2 = 1)
    ELSE IF n >= 2^F32Bits
    THEN LET q == n \div 2
             up == n % 2 = 1 /\ (sticky \/ q % 2 = 1)
             m == IF up THEN q + 1 ELSE q
         IN  IF m = 2^F32Bits
             THEN [m |-> 2^(F32Bits - 1), e |-> e - 2]
             ELSE [m |-> m, e |-> e - 1]
    ELSE [m |-> n, e |-> e]

\* f32::recip of the integer d in 1..F32Range: 1.0 / d, rounded
recip(d) == RoundF32(2^30 \div d, 30, 2^30 % d # 0)
\* k * x, rounded, for the integer k in 1..F32Range
MulF32(k, x) == RoundF32(k * x.m, x.e, FALSE)
\* x < 1.0
BelowOne(x) == x.e >= F32Bits
\* 1.0 - x, rounded, for x < 1.0
OneMinusF32(x) == RoundF32(2^x.e - x.m, x.e, FALSE)
\* x > y
GreaterF32(x, y) == x.e < y.e \/ (x.e = y.e /\ x.m > y.m)

\* bary_c > 0. for positive bary_a and bary_b, where bary_c = (1. - bary_a) - bary_b:
\* the rounded difference of two f32 has the sign of their exact difference.
BaryCPositive(bary_a, bary_b) ==
    BelowOne(bary_a) /\ GreaterF32(OneMinusF32(bary_a), bary_b)

\* The three comparisons of line 212.  The areas are integers and exact in f32;
\* bary_a and bary_b have the signs of their areas times the sign of the reciprocal,
\* and a zero area makes the reciprocal infinite and no weight triple all positive.
\* bary_c is computed in f32 where the areas are within F32Range, and in exact
\* arithmetic beyond it (the triangles of the window, where the integers of the f32
\* model would not fit): there the weight has the sign of area - bary_a_area -
\* bary_b_area.
check_collision_point_tri(p, a, b, c) ==
    LET area == (b[2] - c[2]) * (a[1] - c[1]) + (c[1] - b[1]) * (a[2] - c[2])
        bary_a_area == (b[2] - c[2]) * (p[1] - c[1]) + (c[1] - b[1]) * (p[2] - c[2])
        bary_b_area == (c[2] - a[2]) * (p[1] - c[1]) + (a[1] - c[1]) * (p[2] - c[2])
    IN  /\ area # 0
        /\ Positive(bary_a_area, area)
        /\ Positive(bary_b_area, area)
        /\ IF InF32Range(area) /\ InF32Range(bary_a_area) /\ InF32Range(bary_b_area)
           THEN LET inv_triangle_area == recip(Abs(area))
                IN  BaryCPositive(MulF32(Abs(bary_a_area), inv_triangle_area),
                                  MulF32(Abs(bary_b_area), inv_triangle_area))
           ELSE Positive(area - bary_a_area - bary_b_area, area)

\* Faulty variant: the right and the top edge of a rectangle are excluded.
Hit_HalfOpen(e, p) ==
    LET local == <<p[1] - e.translation[1], p[2] - e.translation[2]>>
        r == e.shape.a
    IN  IF e.shape.type = "Rectangle"
        THEN /\ -r[1] <= local[1] /\ local[1] < r[1]
             /\ -r[2] <= local[2] /\ local[2] < r[2]
        ELSE check_collision_point_tri(local, e.shape.a, e.shape.b, e.shape.c)

\* The hit test of update_mouse_hover_state for a pointer at world point p.
Hit(e, p) ==
    LET local == <<p[1] - e.translation[1], p[2] - e.translation[2]>>
        r == e.shape.a
    IN  IF e.shape.type = "Rectangle"
        THEN /\ -r[1] <= local[1] /\ local[1] <= r[1]
             /\ -r[2] <= local[2] /\ local[2] <= r[2]
        ELSE check_collision_point_tri(local, e.shape.a, e.shape.b, e.shape.c)

----------------------------------------------------------------------------
(* The setup routines: what each spawns, in spawn order *)

\* world.spawn((Camera2dBundle::default(), MainCamera)): not a scene object.
MainCamera == [Plain("camera") EXCEPT !.scene_object = FALSE]

\* SceneSetupSystem.system_map, as setup registers it: every scene but Startup.
system_map == Scene \ {"Startup"}

ClickArea(scene) ==
    [WithTracker(Plain("click_area"), from_rect(U(99999), U(99999)))
        EXCEPT !.button_scene = scene]

add_scene_change_button(width, height, translation, scene) ==
    << [WithTracker(Plain("button_rect"), from_rect(width, height))
          EXCEPT !.translation = translation],
       [WithTracker(Plain("button_text"), from_rect(width, height))
          EXCEPT !.translation = translation, !.button_scene = scene] >>

click_to_start_entities ==
    << ClickArea("MainMenu"), Plain("text") >>

main_menu_entities ==
    add_scene_change_button(U(275), U(60), <<0, 0>>, "Game")
    \o add_scene_change_button(U(180), U(60), <<0, U(-80)>>, "Credits")
    \o << Plain("text") >>

\* Faulty variant: a click in the credits starts a game.
credits_entities_ToGame ==
    << ClickArea("Game"), Plain("text"), Plain("text") >>

credits_entities ==
    << ClickArea("MainMenu"), Plain("text"), Plain("text") >>

center == <<0, 0>>
tl == <<-(U(WindowWidth) \div 2), U(WindowHeight) \div 2>>
tr == <<U(WindowWidth) \div 2, U(WindowHeight) \div 2>>
bl == <<-(U(WindowWidth) \div 2), -(U(WindowHeight) \div 2)>>
br == <<U(WindowWidth) \div 2, -(U(WindowHeight) \div 2)>>

PatternShape(a, b, c, idx) ==
    [WithTracker(Plain("pattern_shape"), from_triangle(a, b, c))
        EXCEPT !.hover_disable = TRUE, !.pattern_idx = idx]

game_entities ==
    << PatternShape(center, tl, tr, 0),
       PatternShape(center, tr, br, 1),
       PatternShape(center, bl, br, 2),
       PatternShape(center, tl, bl, 3),
       Plain("memorize_label") >>

score_entities(new_high) ==
    << Plain("text") >>
    \o (IF new_high THEN << Plain("text"), Plain("text") >> ELSE << Plain("text") >>)
    \o add_scene_change_button(U(500), U(60), <<0, U(-240)>>, "MainMenu")

----------------------------------------------------------------------------
(* Persistence *)

Digit == <<"0", "1", "2", "3", "4", "5", "6", "7", "8", "9">>

\* Faulty variant: only the last digit is written.
to_string_LastDigit(n) == << Digit[(n % 10) + 1] >>

RECURSIVE to_string(_)
\* u8::to_string: decimal, no sign, no leading zero.
to_string(n) ==
    IF n < 10 THEN << Digit[n + 1] >> ELSE to_string(n \div 10) \o << Digit[(n % 10) + 1] >>

DigitValue(ch) == CHOOSE d \in 0..9 : Digit[d + 1] = ch
IsDigit(ch) == \E d \in 0..9 : Digit[d + 1] = ch

RECURSIVE DigitsValue(_)
DigitsValue(text) ==
    IF text = <<>> THEN 0
    ELSE 10 * DigitsValue(SubSeq(text, 1, Len(text) - 1)) + DigitValue(text[Len(text)])

\* str::parse::<u8>().unwrap_or(0): an optional '+', then one digit or more and
\* nothing else, the value at most u8::MAX; anything else is an error, hence 0.
parse_or_zero(text) ==
    LET digits == IF text # <<>> /\ text[1] = "+" THEN Tail(text) ELSE text
    IN  IF /\ digits # <<>>
           /\ \A i \in 1..Len(digits) : IsDigit(digits[i])
           /\ DigitsValue(digits) <= U8Max
        THEN DigitsValue(digits)
        ELSE 0

\* load_score (not wasm32): read_to_string fails on a missing file.
load_score(f) == IF f.exists THEN parse_or_zero(f.text) ELSE 0

\* Faulty variant: the file is written, but with 0.
save_score_Zero(score) == [exists |-> TRUE, text |-> << "0" >>]

\* save_score (not wasm32): std::fs::write(SAVE_PATH, score.to_string())
save_score(score) == [exists |-> TRUE, text |-> to_string(score)]

\* What SAVE_PATH may hold when the application starts: nothing, a score saved by an
\* earlier run, or text that is no u8.
InitialFiles == {NoFile, save_score(1), [exists |-> TRUE, text |-> <<"2", "5", "6">>]}

----------------------------------------------------------------------------
(* The pointer positions the frames draw from, in world space *)

InRed == <<0, U(100)>>              \* inside the red triangle only
InGreen == <<U(100), 0>>            \* the green triangle and the Start Game button
InBlue == <<0, U(-240)>>            \* the blue triangle and Score's return button
InYellow == <<U(-90), U(-50)>>      \* the yellow triangle and a corner of the Credits button
AtCenter == <<0, 0>>                \* the vertex the four triangles share; the Start Game button
MousePositions == {None, InRed, InGreen, InBlue, InYellow, AtCenter}

----------------------------------------------------------------------------
(* Integer width and the build *)

\* A u8 addition that overflows panics in a debug build and wraps in a release build.
Builds == {"debug", "release"}
Overflows(x, build) == x + 1 > U8Max /\ build = "debug"
AddOne(x) == (x + 1) % (U8Max + 1)

----------------------------------------------------------------------------
(* Queries *)

Indices == 1..Len(entities)

\* Query<(Entity, &MouseHoverTracker, &PatternIdx)>, and the query of the playback system
IsPatternShape(e) == e.tracker /\ e.pattern_idx >= 0
\* Query<(&SceneChangeButton, &MouseHoverTracker)>
IsSceneChangeButton(e) == e.tracker /\ e.button_scene # "None"
\* Query<Entity, With<MemorizeLabel>>
IsMemorizeLabel(e) == e.kind = "memorize_label"

\* The first entity, in iteration order, that a `for ... if tracker.is_hovered ... break`
\* loop over the entities `query` stops at; 0 when it stops at none.
FirstHovered(query) ==
    LET hits == {i \in query : entities[i].is_hovered}
    IN  IF hits = {} THEN 0 ELSE CHOOSE i \in hits : \A j \in hits : i <= j

PatternShapes == {i \in Indices : IsPatternShape(entities[i])}
SceneChangeButtons == {i \in Indices : IsSceneChangeButton(entities[i])}

----------------------------------------------------------------------------
(* Init: the resources ShmPlugin::build inserts; the Startup schedule has not run *)

Init ==
    /\ pc = "setup"
    /\ current_scene = "Startup"
    /\ next_scene = "ClickToStart"
    /\ state = GameStateDefault
    /\ timer = TimerReset
    /\ file \in InitialFiles
    /\ high_score = load_score(file)
    /\ mouse_pos = None
    /\ released = FALSE
    /\ entities = <<>>
    /\ cue_log = <<>>
    /\ press_log = <<>>
    /\ prev_hovered = <<>>
    /\ cycles = 0
    /\ saves = <<>>

----------------------------------------------------------------------------
(* Startup schedule *)

setup ==
    /\ pc = "setup"
    /\ entities' = entities \o << MainCamera >>
    /\ pc' = "frame_input"
    /\ UNCHANGED <<current_scene, next_scene, state, timer, high_score, file, mouse_pos,
                   released, cue_log, press_log, prev_hovered, cycles, saves>>

----------------------------------------------------------------------------
(* The Update schedule: one action per system, chained in the order of ShmPlugin::build *)

\* Before Update, Bevy's input system sets just_released for the frame.  The history
\* variables of the frame start here.
FrameInput ==
    /\ pc = "frame_input"
    /\ released' \in BOOLEAN
    /\ prev_hovered' = [i \in Indices |-> entities[i].is_hovered]
    /\ cycles' = 0
    /\ saves' = <<>>
    /\ pc' = "update_mouse_position"
    /\ UNCHANGED <<current_scene, next_scene, state, timer, high_score, file, mouse_pos,
                   entities, cue_log, press_log>>

update_mouse_position ==
    /\ pc = "update_mouse_position"
    /\ mouse_pos' \in MousePositions
    /\ pc' = "update_mouse_hover_state"
    /\ UNCHANGED <<current_scene, next_scene, state, timer, high_score, file, released,
                   entities, cue_log, press_log, prev_hovered, cycles, saves>>

\* Faulty variant: without a pointer position the trackers are left as they are.
HoverStateOf_KeepsWithoutPointer(e) ==
    IF e.tracker /\ ~e.hover_disable /\ mouse_pos # None
    THEN set_hovered(e, Hit(e, mouse_pos))
    ELSE e

HoverStateOf(e) ==
    IF e.tracker /\ ~e.hover_disable
    THEN IF mouse_pos # None THEN set_hovered(e, Hit(e, mouse_pos)) ELSE set_hovered(e, FALSE)
    ELSE e

update_mouse_hover_state ==
    /\ pc = "update_mouse_hover_state"
    /\ entities' = [i \in Indices |-> HoverStateOf(entities[i])]
    /\ pc' = "update_mouse_hover_disable"
    /\ UNCHANGED <<current_scene, next_scene, state, timer, high_score, file, mouse_pos,
                   released, cue_log, press_log, prev_hovered, cycles, saves>>

\* Faulty variant: disabled shapes are left as they are.
HoverDisableOf_Skip(e) == e

HoverDisableOf(e) ==
    IF e.tracker /\ e.hover_disable THEN set_hovered(e, FALSE) ELSE e

update_mouse_hover_disable ==
    /\ pc = "update_mouse_hover_disable"
    /\ entities' = [i \in Indices |-> HoverDisableOf(entities[i])]
    /\ pc' = "pattern_playback_system"
    /\ UNCHANGED <<current_scene, next_scene, state, timer, high_score, file, mouse_pos,
                   released, cue_log, press_log, prev_hovered, cycles, saves>>

----------------------------------------------------------------------------
(* Pattern engine *)

\* Timer::tick of a repeating timer: the elapsed time wraps at the duration, and
\* just_finished() tells whether this tick reached it.
Tick(t, delta) ==
    IF t.elapsed + delta >= TimerDuration
    THEN [elapsed |-> (t.elapsed + delta) % TimerDuration, finished |-> TRUE]
    ELSE [elapsed |-> t.elapsed + delta, finished |-> FALSE]

\* state.pattern[state.idx as usize] is in bounds.
InBounds(s) == s.idx < Len(s.pattern)
\* state.pattern[state.idx as usize]
PatternAt(s) == s.pattern[s.idx + 1]

\* Faulty variant: playback starts over instead of handing over.
SwitchToInput_Replays(s) == [s EXCEPT !.idx = 0]

\* Lines 557-565: the switch to the input phase.
SwitchToInput(s) == [s EXCEPT !.interactive = TRUE, !.idx = 0]
RevealShape(e) ==
    IF IsPatternShape(e) THEN [e EXCEPT !.hover_disable = FALSE]
    ELSE IF IsMemorizeLabel(e) THEN [e EXCEPT !.visible = FALSE]
    ELSE e

\* Faulty variant: every step cues the last symbol of the round.
PlaybackCue_Last(s) == IF s.pattern # <<>> THEN << s.pattern[s.max_idx + 1] >> ELSE <<>>

\* Lines 567-590: the cue of one playback step, and the cursor after it.
PlaybackCue(s) == IF s.pattern # <<>> THEN << PatternAt(s) >> ELSE <<>>
PlaybackReads(s) == s.pattern # <<>> \/ PatternShapes # {}
AfterCue(s) == [s EXCEPT !.idx = AddOne(@)]

pattern_playback_system ==
    /\ pc = "pattern_playback_system"
    /\ UNCHANGED <<current_scene, next_scene, high_score, file, mouse_pos, released,
                   prev_hovered, cycles, saves>>
    /\ IF state.interactive
       THEN /\ pc' = "user_game_system"
            /\ UNCHANGED <<state, timer, entities, cue_log, press_log>>
       ELSE \E delta \in Deltas, build \in Builds :
            /\ timer' = Tick(timer, delta)
            /\ IF ~timer'.finished
               THEN /\ pc' = "user_game_system"
                    /\ UNCHANGED <<state, entities, cue_log, press_log>>
               ELSE IF state.idx > state.max_idx
               THEN /\ state' = SwitchToInput(state)
                    /\ entities' = [i \in Indices |-> RevealShape(entities[i])]
                    /\ press_log' = <<>>
                    /\ pc' = "user_game_system"
                    /\ UNCHANGED cue_log
               ELSE IF (PlaybackReads(state) /\ ~InBounds(state))
                       \/ Overflows(state.idx, build)
               THEN /\ pc' = "panicked"
                    /\ UNCHANGED <<state, entities, cue_log, press_log>>
               ELSE /\ cue_log' = cue_log \o PlaybackCue(state)
                    /\ state' = AfterCue(state)
                    /\ pc' = "user_game_system"
                    /\ UNCHANGED <<entities, press_log>>

\* Faulty variant: the cursor is not rewound when the round is complete.
AdvanceRound_KeepsIdx(s) == [s EXCEPT !.max_idx = AddOne(@), !.interactive = FALSE]

\* Lines 633-643: the round is complete.
AdvanceRound(s) == [s EXCEPT !.idx = 0, !.max_idx = AddOne(@), !.interactive = FALSE]
\* Faulty variant: a level advance leaves the shapes and the prompt as they are.
HideShape_Nothing(e) == e

HideShape(e) ==
    IF IsPatternShape(e) THEN [e EXCEPT !.hover_disable = TRUE]
    ELSE IF IsMemorizeLabel(e) THEN [e EXCEPT !.visible = TRUE]
    ELSE e
\* Faulty variant: a correct press does not move the cursor.
NextPress_Stays(s) == s

\* Line 645
NextPress(s) == [s EXCEPT !.idx = AddOne(@)]
\* Faulty variant: a wrong press returns to the menu.
WrongPressScene_Menu == "MainMenu"

\* Line 655
WrongPressScene == "Score"

\* Faulty variant: a hovered shape counts as pressed without a release.
AcceptsPress_NoRelease == state.interactive

\* Line 607: the stage evaluates a press.
AcceptsPress == state.interactive /\ released

user_game_system ==
    /\ pc = "user_game_system"
    /\ UNCHANGED <<current_scene, high_score, file, mouse_pos, released, prev_hovered,
                   cycles, saves>>
    /\ LET hit == FirstHovered(PatternShapes)
       IN  IF ~AcceptsPress \/ hit = 0
           THEN /\ pc' = "scene_change_button"
                /\ UNCHANGED <<next_scene, state, timer, entities, cue_log, press_log>>
           ELSE IF ~InBounds(state)
           THEN /\ pc' = "panicked"
                /\ UNCHANGED <<next_scene, state, timer, entities, cue_log, press_log>>
           ELSE IF entities[hit].pattern_idx # PatternAt(state)
           THEN /\ next_scene' = WrongPressScene
                /\ pc' = "scene_change_button"
                /\ UNCHANGED <<state, timer, entities, cue_log, press_log>>
           ELSE IF state.idx = state.max_idx
           THEN \E build \in Builds :
                /\ ExploredLevel(state.max_idx)
                /\ IF Overflows(state.max_idx, build)
                   THEN /\ pc' = "panicked"
                        /\ UNCHANGED <<next_scene, state, timer, entities, cue_log,
                                       press_log>>
                   ELSE /\ state' = AdvanceRound(state)
                        /\ timer' = TimerReset
                        /\ entities' = [i \in Indices |-> HideShape(entities[i])]
                        /\ cue_log' = <<>>
                        /\ press_log' = Append(press_log, entities[hit].pattern_idx)
                        /\ pc' = "scene_change_button"
                        /\ UNCHANGED next_scene
           ELSE \E build \in Builds :
                IF Overflows(state.idx, build)
                THEN /\ pc' = "panicked"
                     /\ UNCHANGED <<next_scene, state, timer, entities, cue_log, press_log>>
                ELSE /\ state' = NextPress(state)
                     /\ press_log' = Append(press_log, entities[hit].pattern_idx)
                     /\ pc' = "scene_change_button"
                     /\ UNCHANGED <<next_scene, timer, entities, cue_log>>

----------------------------------------------------------------------------
(* Scene state machine *)

\* Faulty variant: a hovered control is activated without a release.
RequestedByButton_NoRelease ==
    LET hit == FirstHovered(SceneChangeButtons)
    IN  IF mouse_pos # None /\ hit # 0
        THEN entities[hit].button_scene
        ELSE next_scene

\* Lines 911-920: the scene the stage requests.
RequestedByButton ==
    LET hit == FirstHovered(SceneChangeButtons)
    IN  IF released /\ mouse_pos # None /\ hit # 0
        THEN entities[hit].button_scene
        ELSE next_scene

scene_change_button ==
    /\ pc = "scene_change_button"
    /\ next_scene' = RequestedByButton
    /\ pc' = "handle_scene_change"
    /\ UNCHANGED <<current_scene, state, timer, high_score, file, mouse_pos, released,
                   entities, cue_log, press_log, prev_hovered, cycles, saves>>

\* Faulty variant: the teardown is forgotten.
Despawned_Nothing == entities

\* Lines 819-821: what is left once every SceneObject is despawned.
Despawned == SelectSeq(entities, LAMBDA e : ~e.scene_object)

\* Faulty variant: the scene is set up again in every frame.
SceneChanges_Always == TRUE

\* Line 811
SceneChanges == next_scene # current_scene

\* Faulty variant: the current scene is not updated.
AppliedScene_Stale == current_scene

\* Lines 812-813
AppliedScene == next_scene

\* Faulty variant: a score equal to the high score counts as a new one.
NewHighScore_OrEqual == state.max_idx >= high_score

\* Line 687
NewHighScore == state.max_idx > high_score

\* Faulty variant: only the pattern is regenerated.
NewGameState_KeepsLevel(pattern) == [state EXCEPT !.pattern = pattern]

\* Lines 420-425
NewGameState(pattern) == [GameStateDefault EXCEPT !.pattern = pattern, !.max_idx = 0]

\* What the setup system of `scene` spawns.
Spawned(scene) ==
    CASE scene = "ClickToStart" -> click_to_start_entities
      [] scene = "MainMenu" -> main_menu_entities
      [] scene = "Credits" -> credits_entities
      [] scene = "Game" -> game_entities
      [] scene = "Score" -> score_entities(NewHighScore)
      [] OTHER -> <<>>

handle_scene_change ==
    /\ pc = "handle_scene_change"
    /\ pc' = "close_on_esc"
    /\ UNCHANGED <<next_scene, mouse_pos, released, prev_hovered>>
    /\ IF ~SceneChanges
       THEN UNCHANGED <<current_scene, state, timer, high_score, file, entities, cue_log,
                        press_log, cycles, saves>>
       ELSE /\ current_scene' = AppliedScene
            /\ cycles' = cycles + 1
            /\ entities' = Despawned \o (IF next_scene \in system_map
                                         THEN Spawned(next_scene) ELSE <<>>)
            /\ IF next_scene = "Game" /\ next_scene \in system_map
               THEN /\ timer' = TimerReset
                    /\ \E pattern \in Patterns : state' = NewGameState(pattern)
                    /\ cue_log' = <<>>
                    /\ press_log' = <<>>
               ELSE UNCHANGED <<timer, state, cue_log, press_log>>
            /\ IF next_scene = "Score" /\ next_scene \in system_map /\ NewHighScore
               THEN /\ high_score' = state.max_idx
                    /\ file' = save_score(state.max_idx)
                    /\ saves' = Append(saves, state.max_idx)
               ELSE UNCHANGED <<high_score, file, saves>>

\* Escape despawns the focused window, which ends the application.
close_on_esc ==
    /\ pc = "close_on_esc"
    /\ \E escape \in BOOLEAN : pc' = IF escape THEN "exited" ELSE "frame_input"
    /\ UNCHANGED <<current_scene, next_scene, state, timer, high_score, file, mouse_pos,
                   released, entities, cue_log, press_log, prev_hovered, cycles, saves>>

----------------------------------------------------------------------------

\* The Update schedule
Update ==
    \/ FrameInput
    \/ update_mouse_position
    \/ update_mouse_hover_state
    \/ update_mouse_hover_disable
    \/ pattern_playback_system
    \/ user_game_system
    \/ scene_change_button
    \/ handle_scene_change
    \/ close_on_esc

Next == setup \/ Update

Spec == Init /\ [][Next]_vars

\* The runner keeps running the schedules: a system whose turn it is runs.
SpecFair == Spec /\ WF_vars(Next)

----------------------------------------------------------------------------
(* A playthrough picked up late: the frame boundary that follows the last correct *)
(* press of round LateLevel - 1 of a playthrough without a mistake, which leaves   *)
(* max_idx = LateLevel, the pointer resting on the shape just pressed.             *)

PointIn(symbol) ==
    CASE symbol = 0 -> InRed
      [] symbol = 1 -> InGreen
      [] symbol = 2 -> InBlue
      [] OTHER -> InYellow

LateEntities(pressed) ==
    LET es == << MainCamera >> \o game_entities
    IN  [i \in 1..Len(es) |->
            IF es[i].pattern_idx = pressed THEN [es[i] EXCEPT !.is_hovered = TRUE] ELSE es[i]]

LateInit ==
    /\ pc = "frame_input"
    /\ current_scene = "Game"
    /\ next_scene = "Game"
    /\ \E pattern \in Patterns :
          /\ state = [pattern |-> pattern, interactive |-> FALSE,
                      max_idx |-> LateLevel, idx |-> 0]
          /\ mouse_pos = PointIn(pattern[LateLevel])
          /\ entities = LateEntities(pattern[LateLevel])
    /\ timer = TimerReset
    /\ file = NoFile
    /\ high_score = load_score(file)
    /\ released = TRUE
    /\ cue_log = <<>>
    /\ press_log = <<>>
    /\ prev_hovered = [i \in 1..Len(entities) |-> entities[i].is_hovered]
    /\ cycles = 0
    /\ saves = <<>>

SpecLate == LateInit /\ [][Update]_vars
SpecLateFair == SpecLate /\ WF_vars(Update)

----------------------------------------------------------------------------
(* Shorthands of the claims *)

InGame == current_scene = "Game"

\* The pattern shape a press of this frame's input stage is evaluated against, or 0.
PressedShape == IF AcceptsPress THEN FirstHovered(PatternShapes) ELSE 0
CorrectPress ==
    /\ pc = "user_game_system"
    /\ PressedShape # 0
    /\ entities[PressedShape].pattern_idx = PatternAt(state)
WrongPress ==
    /\ pc = "user_game_system"
    /\ PressedShape # 0
    /\ entities[PressedShape].pattern_idx # PatternAt(state)

\* pattern[0], ..., pattern[n - 1]
Prefix(s, n) == SubSeq(s.pattern, 1, n)

----------------------------------------------------------------------------
\* C1: in the input phase, a release on the shape whose symbol equals pattern[idx]
\* while idx = max_idx increments max_idx by exactly 1, sets idx to 0 and interactive
\* to false, restarts the timer from zero elapsed and disables the four shapes again;
\* the presses of the round were then the complete prefix pattern[0..max_idx].
C1_RoundAdvances ==
    [][ (CorrectPress /\ state.idx = state.max_idx)
        => /\ state'.max_idx = state.max_idx + 1
           /\ state'.idx = 0
           /\ state'.interactive = FALSE
           /\ state'.pattern = state.pattern
           /\ timer' = [elapsed |-> 0, finished |-> FALSE]
           /\ Len(press_log) = state.max_idx
           /\ press_log' = Prefix(state, state.max_idx + 1)
           /\ Cardinality(PatternShapes) = 4
           /\ \A i \in PatternShapes : entities'[i].hover_disable
           /\ next_scene' = next_scene ]_vars

\* A round has just advanced to level 2 after the presses pattern[0], pattern[1].
C1_Witness ==
    /\ pc = "scene_change_button"
    /\ InGame
    /\ state.max_idx = 2 /\ state.idx = 0 /\ ~state.interactive
    /\ press_log = Prefix(state, 2)
    /\ timer.elapsed = 0
    /\ \A i \in PatternShapes : entities[i].hover_disable

\* C2: in the input phase, for idx <= max_idx, a release on a hovered shape whose
\* symbol differs from pattern[idx] requests the Score scene and leaves max_idx, idx
\* and the pattern unchanged.
C2_WrongPress ==
    [][ (WrongPress /\ state.idx <= state.max_idx)
        => /\ next_scene' = "Score"
           /\ state' = state ]_vars

\* The scenario of the specification: a wrong press at max_idx = 2, idx = 1.
C2_Witness ==
    /\ pc = "scene_change_button"
    /\ InGame
    /\ next_scene = "Score"
    /\ state.max_idx = 2 /\ state.idx = 1 /\ state.interactive
    /\ released
    /\ \E i \in PatternShapes :
          entities[i].is_hovered /\ entities[i].pattern_idx # PatternAt(state)

\* The timer expires in a playback step of the Game scene.
PlaybackExpiry ==
    /\ pc = "pattern_playback_system"
    /\ InGame
    /\ ~state.interactive
    /\ timer'.finished

C4_NoFault == pc # "panicked"

----------------------------------------------------------------------------
KindsOf(es) == [i \in 1..Len(es) |-> es[i].kind]
SceneObjects == SelectSeq(entities, LAMBDA e : e.scene_object)
\* The frame's transition stage has run.
FrameDone == pc \in {"close_on_esc", "exited"}

\* C5: in every frame the transition stage runs at most one teardown/setup cycle,
\* whatever the input stage and the scene-change-control stage requested, no other
\* stage changes the current scene or the set of entities, and at the end of the
\* frame current = requested_next.
C5_OneCyclePerFrame ==
    /\ [](cycles <= 1 /\ (FrameDone => current_scene = next_scene))
    /\ [][ pc # "handle_scene_change" /\ pc # "setup"
           => /\ current_scene' = current_scene
              /\ cycles' = 0 \/ cycles' = cycles
              /\ KindsOf(entities') = KindsOf(entities) ]_vars

\* A wrong press of this frame was applied by the one cycle of the frame.
C5_Witness ==
    /\ pc = "close_on_esc"
    /\ cycles = 1
    /\ released
    /\ current_scene = "Score" /\ next_scene = "Score"

\* What the setup routine of the scene entered in this frame spawned.
SetupProduct ==
    IF current_scene = "Score" THEN score_entities(saves # <<>>)
    ELSE IF current_scene \in system_map THEN Spawned(current_scene)
    ELSE <<>>

\* C6: a transition destroys every scene object of the outgoing scene and then runs
\* the setup routine of the new scene: afterwards the scene objects are exactly what
\* that routine produced (none for a scene without a routine), so the four pattern
\* shapes exist only while current = Game; entities that are no scene objects survive.
C6_SceneObjects ==
    /\ (pc # "setup" => entities[1] = MainCamera /\ Len(SceneObjects) = Len(entities) - 1)
    /\ (pc = "close_on_esc" /\ cycles = 1 => SceneObjects = SetupProduct)
    /\ KindsOf(SceneObjects) \in
          IF current_scene = "Score"
          THEN {KindsOf(score_entities(TRUE)), KindsOf(score_entities(FALSE))}
          ELSE {KindsOf(IF current_scene \in system_map
                        THEN Spawned(current_scene) ELSE <<>>)}
    /\ Cardinality(PatternShapes) = IF InGame THEN 4 ELSE 0

\* The Game scene has just been torn down and the Score scene set up.
C6_Witness ==
    /\ pc = "close_on_esc"
    /\ cycles = 1
    /\ current_scene = "Score"
    /\ state.max_idx = 2
    /\ PatternShapes = {}
    /\ SceneObjects = score_entities(TRUE)

\* C7: when requested_next = current at the transition stage, no entity is destroyed,
\* no setup routine runs, and current, GameState, the timer and the high score are
\* unchanged.
C7_SameSceneNoOp ==
    [][ pc = "handle_scene_change" /\ next_scene = current_scene
        => UNCHANGED <<current_scene, next_scene, state, timer, high_score, file,
                       entities, cycles, saves, cue_log, press_log>> ]_vars

\* The transition stage has run in the main menu with nothing to apply.
C7_Witness ==
    /\ pc = "close_on_esc"
    /\ cycles = 0
    /\ current_scene = "MainMenu" /\ next_scene = "MainMenu"
    /\ released
    /\ Len(SceneObjects) = 5

----------------------------------------------------------------------------
\* Both hover stages of the frame have run, and the entities are still those of the
\* frame's beginning.
Hovered == pc \in {"pattern_playback_system", "user_game_system", "scene_change_button",
                  "handle_scene_change"}
Trackers == {i \in Indices : entities[i].tracker}
\* The pointer is geometrically inside the shape of entity i.
PointerInside(i) == mouse_pos # None /\ Hit(entities[i], mouse_pos)

\* C8: once the hover stages of a frame have run, every shape carrying the
\* hover-disabled mark has is_hovered = false wherever the pointer is, and this lasts
\* until the input stage; so the input stage registers no press while the pattern is
\* played back: it changes nothing unless the phase is the input phase and a pattern
\* shape without the mark is hovered with the pointer inside it.
C8_DisabledNeverHovered ==
    /\ [](pc \in {"pattern_playback_system", "user_game_system"}
            => \A i \in Trackers : entities[i].hover_disable => ~entities[i].is_hovered)
    /\ [][ pc = "user_game_system" /\ <<state, next_scene, timer, entities>>' #
                                      <<state, next_scene, timer, entities>>
           => /\ state.interactive
              /\ \E i \in PatternShapes :
                    /\ entities[i].is_hovered
                    /\ ~entities[i].hover_disable
                    /\ PointerInside(i) ]_vars

\* The pointer is inside a disabled pattern shape, released, and the shape is unhovered.
C8_Witness ==
    /\ pc = "user_game_system"
    /\ InGame /\ ~state.interactive
    /\ released
    /\ \E i \in PatternShapes :
          /\ entities[i].hover_disable
          /\ PointerInside(i)
          /\ prev_hovered[i]
          /\ ~entities[i].is_hovered

\* C9: after the hover update of a frame, is_just_hovered is true exactly when
\* is_hovered went from false to true in it and is_just_unhovered exactly when it went
\* from true to false; the two flags are never both true, and both are false when
\* is_hovered is unchanged.
C9_EdgeFlags ==
    /\ \A i \in Indices : ~(entities[i].is_just_hovered /\ entities[i].is_just_unhovered)
    /\ Hovered =>
          \A i \in Trackers :
             /\ entities[i].is_just_hovered = (~prev_hovered[i] /\ entities[i].is_hovered)
             /\ entities[i].is_just_unhovered = (prev_hovered[i] /\ ~entities[i].is_hovered)

\* In one frame a tracker was entered, another was left and a third is unchanged.
C9_Witness ==
    /\ Hovered
    /\ \E i \in Trackers :
          /\ ~prev_hovered[i] /\ entities[i].is_hovered
          /\ entities[i].is_just_hovered /\ ~entities[i].is_just_unhovered
    /\ \E j \in Trackers :
          /\ prev_hovered[j] /\ ~entities[j].is_hovered
          /\ entities[j].is_just_unhovered /\ ~entities[j].is_just_hovered
    /\ \E k \in Trackers :
          /\ prev_hovered[k] = entities[k].is_hovered
          /\ ~entities[k].is_just_hovered /\ ~entities[k].is_just_unhovered

HoveredButtons == {i \in SceneChangeButtons : entities[i].is_hovered}

\* C10: on a frame with a release, if a scene-change control is hovered then
\* requested_next becomes the target of exactly one hovered control, the first in
\* iteration order; with no release, or no hovered control, the stage leaves
\* requested_next unchanged.
C10_ButtonActivation ==
    [][ pc = "scene_change_button"
        => IF released /\ HoveredButtons # {}
           THEN /\ next_scene' = entities[FirstHovered(SceneChangeButtons)].button_scene
                /\ \E i \in HoveredButtons : next_scene' = entities[i].button_scene
           ELSE next_scene' = next_scene ]_vars

\* The Credits button of the main menu was hovered at a release: Credits is requested.
C10_Witness ==
    /\ pc = "handle_scene_change"
    /\ released
    /\ current_scene = "MainMenu"
    /\ next_scene = "Credits"
    /\ \E i \in HoveredButtons : entities[i].button_scene = "Credits"

----------------------------------------------------------------------------
\* The transition stage is about to enter the Game scene.
EntersGame == pc = "handle_scene_change" /\ next_scene = "Game" /\ current_scene # "Game"

\* C11: every entry into the Game scene, the first and every later one, leaves
\* GameState with a pattern of exactly 255 symbols, each in {0, 1, 2, 3}, max_idx = 0,
\* idx = 0, interactive = false and the playback timer restarted, whatever the state
\* of the previous playthrough was.
C11_FreshGameState ==
    [][ EntersGame
        => /\ current_scene' = "Game"
           /\ Len(state'.pattern) = 255
           /\ \A i \in 1..Len(state'.pattern) : state'.pattern[i] \in {0, 1, 2, 3}
           /\ state'.max_idx = 0
           /\ state'.idx = 0
           /\ state'.interactive = FALSE
           /\ timer' = [elapsed |-> 0, finished |-> FALSE] ]_vars

\* The Game scene is entered again: an earlier playthrough of this run reached level 2
\* and set the high score, and the state is fresh.
C11_Witness ==
    /\ pc = "close_on_esc"
    /\ cycles = 1
    /\ InGame
    /\ high_score = 2 /\ file = save_score(2)
    /\ Len(state.pattern) = 255
    /\ state.max_idx = 0 /\ state.idx = 0 /\ ~state.interactive
    /\ timer = TimerReset

\* C12: in every state of a playthrough, idx <= max_idx while interactive is true
\* (input validation), and idx <= pattern.length - 1 while it is false (playback).
C12_IdxBounds ==
    InGame /\ pc # "panicked"
    => IF state.interactive
       THEN state.idx <= state.max_idx
       ELSE state.idx <= Len(state.pattern) - 1

\* C13: interactive is true only in the input phase of the Game scene: in every
\* reachable state interactive = true implies current = Game, however long the
\* application stays in Startup, ClickToStart, MainMenu, Credits or Score.
C13_InteractiveOnlyInGame == state.interactive => InGame

----------------------------------------------------------------------------
\* The transition stage is about to enter the Score scene.
EntersScore == pc = "handle_scene_change" /\ next_scene = "Score" /\ current_scene # "Score"

\* C14: on each entry into the Score scene save_score is called once with max_idx if
\* max_idx is strictly greater than the high score, and not at all if max_idx <= the
\* high score; it is called at no other point, and the stored score and the high score
\* change at no other point.
C14_SavedOncePerHighScore ==
    /\ [](Len(saves) <= 1)
    /\ [][ IF EntersScore /\ state.max_idx > high_score
           THEN /\ saves = <<>> /\ saves' = << state.max_idx >>
                /\ file' = [exists |-> TRUE, text |-> to_string(state.max_idx)]
                /\ high_score' = state.max_idx
           ELSE /\ saves' = saves \/ (pc = "frame_input" /\ saves' = <<>>)
                /\ file' = file
                /\ high_score' = high_score ]_vars

\* The Score scene was entered at level 2 with a lower high score: one save, of 2.
C14_Witness ==
    /\ pc = "close_on_esc"
    /\ current_scene = "Score"
    /\ cycles = 1
    /\ state.max_idx = 2
    /\ saves = << 2 >>
    /\ file = save_score(2)
    /\ high_score = 2

----------------------------------------------------------------------------
(* Persistence on its own: SAVE_PATH holds anything, an optional save_score, and *)
(* the load_score of the next start of the application.                          *)

\* The characters of the stored texts.
StoredChars == {"0", "2", "5", "6", "7", "+", "-", " ", "x"}
Texts == UNION {[1..k -> StoredChars] : k \in 0..MaxTextLen}
\* NoFile stands for every failure of read_to_string: a missing file, or bytes that
\* are no UTF-8.
StoredFiles == {NoFile} \cup {[exists |-> TRUE, text |-> t] : t \in Texts}

PersistInit ==
    /\ pc = "persist"
    /\ file \in StoredFiles
    /\ high_score = 0
    /\ saves = <<>>
    /\ current_scene = "Startup"
    /\ next_scene = "ClickToStart"
    /\ state = GameStateDefault
    /\ timer = TimerReset
    /\ mouse_pos = None
    /\ released = FALSE
    /\ entities = <<>>
    /\ cue_log = <<>>
    /\ press_log = <<>>
    /\ prev_hovered = <<>>
    /\ cycles = 0

\* save_score(score), for any u8
SaveScore ==
    /\ pc = "persist"
    /\ \E score \in 0..U8Max :
          /\ file' = save_score(score)
          /\ saves' = << score >>
    /\ pc' = "saved"
    /\ UNCHANGED <<current_scene, next_scene, state, timer, high_score, mouse_pos,
                   released, entities, cue_log, press_log, prev_hovered, cycles>>

\* HighScore(load_score())
LoadScore ==
    /\ pc \in {"persist", "saved"}
    /\ high_score' = load_score(file)
    /\ pc' = "loaded"
    /\ UNCHANGED <<current_scene, next_scene, state, timer, file, mouse_pos, released,
                   entities, cue_log, press_log, prev_hovered, cycles, saves>>

SpecPersist == PersistInit /\ [][SaveScore \/ LoadScore]_vars

\* text is a decimal numeral of v: an optional plus sign, leading zeros, the digits.
Represents(text, v) ==
    \E sign \in {<<>>, << "+" >>}, zeros \in 0..Len(text) :
        text = sign \o [i \in 1..zeros |-> "0"] \o to_string(v)

\* C15: for every score v in 0..255, saving v and then loading returns v; loading
\* when nothing was saved, or when the stored data is missing or is no numeral of an
\* integer in 0..255, returns 0 (and is not an error: it returns).
C15_RoundTrip ==
    pc = "loaded" =>
        IF saves # <<>> THEN high_score = saves[1]
        ELSE IF ~file.exists THEN high_score = 0
        ELSE (~\E v \in 0..255 : Represents(file.text, v)) => high_score = 0

\* 255 was saved and loaded again.
C15_Witness ==
    /\ pc = "loaded"
    /\ saves = << 255 >>
    /\ file.text = << "2", "5", "5" >>
    /\ high_score = 255

----------------------------------------------------------------------------
\* C16: the current scene starts as Startup and changes only by Startup ->
\* ClickToStart, ClickToStart -> MainMenu, MainMenu -> Game, MainMenu -> Credits,
\* Credits -> MainMenu, Game -> Score and Score -> MainMenu: Score is entered only
\* from Game and left only to MainMenu, and Startup is never entered again.
C16_SceneTransitions ==
    /\ [](pc = "setup" => current_scene = "Startup")
    /\ [][ current_scene' # current_scene
           => <<current_scene, current_scene'>> \in
                 { <<"Startup", "ClickToStart">>, <<"ClickToStart", "MainMenu">>,
                   <<"MainMenu", "Game">>, <<"MainMenu", "Credits">>,
                   <<"Credits", "MainMenu">>, <<"Game", "Score">>,
                   <<"Score", "MainMenu">> } ]_vars

\* The main menu has just been entered from a Score scene that showed a new high
\* score: the frame began with the entities of that scene.
C16_Witness ==
    /\ pc = "close_on_esc"
    /\ cycles = 1
    /\ current_scene = "MainMenu"
    /\ released
    /\ high_score = 2
    /\ Len(prev_hovered) = 1 + Len(score_entities(TRUE))
    /\ \E i \in 1..Len(prev_hovered) : prev_hovered[i]

\* C17: GameState is reset on exit of the Game scene: once the transition that
\* leaves Game has been applied, GameState is in its reset state (empty pattern,
\* idx = 0, max_idx = 0, interactive = false).
C17_ResetOnExit ==
    [][ pc = "handle_scene_change" /\ current_scene = "Game" /\ next_scene # "Game"
        => state' = [pattern |-> <<>>, interactive |-> FALSE, max_idx |-> 0, idx |-> 0]
      ]_vars

----------------------------------------------------------------------------
\* C18: in a frame without a pointer position, after the hover stages every hover
\* tracker, disabled or not, has is_hovered = false, and a release in that frame
\* activates no scene-change control and registers no press on a pattern shape.
C18_NoPointer ==
    /\ [](mouse_pos = None /\ Hovered => \A i \in Trackers : ~entities[i].is_hovered)
    /\ [][ mouse_pos = None /\ released /\ pc = "user_game_system"
           => UNCHANGED <<state, next_scene, timer, entities, press_log, cue_log>> ]_vars
    /\ [][ mouse_pos = None /\ released /\ pc = "scene_change_button"
           => next_scene' = next_scene ]_vars

\* The pointer left the window while it hovered a control of the main menu, and the
\* button was released in the same frame: nothing is requested.
C18_Witness ==
    /\ pc = "handle_scene_change"
    /\ mouse_pos = None
    /\ released
    /\ current_scene = "MainMenu" /\ next_scene = "MainMenu"
    /\ \E i \in SceneChangeButtons :
          prev_hovered[i] /\ ~entities[i].is_hovered /\ entities[i].is_just_unhovered

----------------------------------------------------------------------------
(* The hit tests on their own: one tracker of any small shape, placed anywhere in *)
(* a small set, a pointer position, and the hover stage of one frame.             *)

Translations == {<<0, 0>>, <<U(1), U(-2)>>}

RectTrackers ==
    { [WithTracker(Plain("button_rect"), from_rect(U(U(hw)), U(U(hh))))
          EXCEPT !.translation = t] :
      hw \in 0..RectMax, hh \in 0..RectMax, t \in Translations }
RectPoints == (-(U(RectMax) + 1)..(U(RectMax) + 1)) \X (-(U(RectMax) + 1)..(U(RectMax) + 1))

\* Triangles with a vertex at the local origin, as those of setup_game.
TriTrackers ==
    { [PatternShape(center, b, c, 0) EXCEPT !.hover_disable = FALSE, !.translation = t] :
      b \in (0..TriMax) \X (0..TriMax), c \in (0..TriMax) \X (0..TriMax),
      t \in Translations }
TriPoints == (0..TriMax) \X (0..TriMax)

HoverInit ==
    /\ pc = "update_mouse_hover_state"
    /\ \E e \in RectTrackers \cup TriTrackers :
          /\ entities = << MainCamera, e >>
          /\ \E local \in IF e.shape.type = "Rectangle" THEN RectPoints ELSE TriPoints :
                mouse_pos = <<e.translation[1] + local[1], e.translation[2] + local[2]>>
    /\ current_scene = "Startup"
    /\ next_scene = "Startup"
    /\ state = GameStateDefault
    /\ timer = TimerReset
    /\ file = NoFile
    /\ high_score = 0
    /\ released = FALSE
    /\ cue_log = <<>>
    /\ press_log = <<>>
    /\ prev_hovered = <<FALSE, FALSE>>
    /\ cycles = 0
    /\ saves = <<>>

SpecHover == HoverInit /\ [][update_mouse_hover_state]_vars

\* The hover stage has run on the tracker of SpecHover.
HitTested == pc = "update_mouse_hover_disable" /\ Len(entities) = 2
\* The pointer in the local space of the tracker.
LocalPointer ==
    <<mouse_pos[1] - entities[2].translation[1], mouse_pos[2] - entities[2].translation[2]>>

\* C19: the rectangle hit test is inclusive on all four edges: for a rectangle with
\* half extents (hw, hh) a local point (x, y) is hovered iff -hw <= x <= hw and
\* -hh <= y <= hh; every point on an edge or at a corner is hovered.
C19_RectangleInclusive ==
    HitTested /\ entities[2].shape.type = "Rectangle"
    => LET hw == entities[2].shape.a[1]
           hh == entities[2].shape.a[2]
           x == LocalPointer[1]
           y == LocalPointer[2]
       IN  /\ entities[2].is_hovered = (-hw <= x /\ x <= hw /\ -hh <= y /\ y <= hh)
           /\ (Abs(x) = hw /\ Abs(y) <= hh) \/ (Abs(y) = hh /\ Abs(x) <= hw)
                 => entities[2].is_hovered

\* The pointer is at the corner (hw, hh) of a 4 x 6 pixel rectangle placed off the
\* origin, and the rectangle is hovered.
C19_Witness ==
    /\ HitTested
    /\ entities[2].shape = Rectangle(U(2), U(3))
    /\ entities[2].translation # <<0, 0>>
    /\ LocalPointer = <<U(2), U(3)>>
    /\ entities[2].is_hovered /\ entities[2].is_just_hovered

\* The pointer is strictly inside the triangle of the tracker: the three doubled
\* signed areas it spans with the edges have the sign of the triangle's.
StrictlyInside ==
    LET p == LocalPointer
        a == entities[2].shape.a
        b == entities[2].shape.b
        c == entities[2].shape.c
        Cross(u, v, w) == (v[1] - u[1]) * (w[2] - u[2]) - (v[2] - u[2]) * (w[1] - u[1])
    IN  \/ Cross(a, b, p) > 0 /\ Cross(b, c, p) > 0 /\ Cross(c, a, p) > 0
        \/ Cross(a, b, p) < 0 /\ Cross(b, c, p) < 0 /\ Cross(c, a, p) < 0

\* C20: the triangle hit test is exclusive on all three edges: for a non-degenerate
\* triangle a local point is hovered iff it is strictly interior (all three
\* barycentric weights positive); no point on an edge or at a vertex is hovered.
C20_TriangleExclusive ==
    HitTested /\ entities[2].shape.type = "Triangle"
    => entities[2].is_hovered = StrictlyInside

----------------------------------------------------------------------------
\* C21: in the input phase, a release on the shape whose symbol equals pattern[idx]
\* while idx < max_idx increments idx by exactly 1 and leaves max_idx, interactive,
\* the pattern, the timer and requested_next unchanged; the presses accepted so far
\* in a round are pattern[0..idx-1] in order, so the round at level m advances only
\* after the m + 1 presses pattern[0..m].
C21_CorrectPressMidRound ==
    /\ [](InGame /\ state.interactive
            => Len(press_log) = state.idx /\ press_log = Prefix(state, state.idx))
    /\ [][ CorrectPress /\ state.idx < state.max_idx
           => /\ state'.idx = state.idx + 1
              /\ state'.max_idx = state.max_idx
              /\ state'.interactive = state.interactive
              /\ state'.pattern = state.pattern
              /\ timer' = timer
              /\ next_scene' = next_scene
              /\ press_log' = Append(press_log, PatternAt(state)) ]_vars
    /\ [][ InGame /\ state.interactive /\ state'.max_idx # state.max_idx
           => Len(press_log) = state.max_idx /\ CorrectPress ]_vars

\* At level 3 the third correct press of the round has just been accepted: idx = 3,
\* and the round has not advanced.
C21_Witness ==
    /\ pc = "scene_change_button"
    /\ InGame
    /\ released
    /\ state.interactive /\ state.max_idx = 3 /\ state.idx = 3
    /\ press_log = Prefix(state, 3)
    /\ next_scene = "Game"

\* C22: the input stage changes GameState, the playback timer or requested_next only
\* in a frame with a release while interactive is true and one of the four pattern
\* shapes is hovered; a release during playback, a release with no pattern shape
\* hovered and a frame without a release leave all of them unchanged.
C22_InputStageEffect ==
    [][ pc = "user_game_system"
        => \/ /\ released
              /\ state.interactive
              /\ Cardinality(PatternShapes) = 4
              /\ \E i \in PatternShapes : entities[i].is_hovered
           \/ UNCHANGED <<state, timer, next_scene>> ]_vars

\* The input stage has run on a release during playback with the pointer inside a
\* pattern shape, and nothing of the state moved: the round is where playback left it.
C22_Witness ==
    /\ pc = "scene_change_button"
    /\ InGame
    /\ released
    /\ ~state.interactive
    /\ state.max_idx = 1 /\ state.idx = 1
    /\ cue_log = Prefix(state, 1)
    /\ next_scene = "Game"
    /\ \E i \in PatternShapes : PointerInside(i) /\ entities[i].pattern_idx = state.pattern[2]

----------------------------------------------------------------------------
\* A frame has ended and the next has not begun.
FrameBoundary == pc = "frame_input"
MemorizeLabels == {i \in Indices : IsMemorizeLabel(entities[i])}

\* C23: at every frame boundary while current = Game, the four pattern shapes carry
\* the hover-disabled mark iff interactive = false, and the Memorize prompt is visible
\* iff interactive = false.
C23_PhaseAndMarks ==
    FrameBoundary /\ InGame
    => /\ Cardinality(PatternShapes) = 4
       /\ \A i \in PatternShapes : entities[i].hover_disable = ~state.interactive
       /\ Cardinality(MemorizeLabels) = 1
       /\ \A i \in MemorizeLabels : entities[i].visible = ~state.interactive

\* A frame boundary in the playback of level 1: after the setup, a switch to input
\* and a level advance, the shapes are disabled again and the prompt is back.
C23_Witness ==
    /\ FrameBoundary
    /\ InGame
    /\ ~state.interactive /\ state.max_idx = 1
    /\ press_log = Prefix(state, 1)
    /\ \A i \in PatternShapes : entities[i].hover_disable
    /\ \A i \in MemorizeLabels : entities[i].visible

----------------------------------------------------------------------------
\* C24: one release causes at most one scene transition: the trackers a transition
\* of frame t creates start with is_hovered = false and are spawned after the input
\* and the scene-change-control stages of frame t, nothing is requested after the
\* transition in frame t, and every later transition needs the release of its own
\* frame.
C24_OneTransitionPerRelease ==
    /\ [](pc = "close_on_esc" /\ cycles = 1
            => /\ \A i \in Trackers : ~entities[i].is_hovered
               /\ next_scene = current_scene)
    /\ [][ pc = "handle_scene_change" /\ current_scene' # current_scene
           => /\ released \/ current_scene = "Startup"
              /\ cycles = 0 ]_vars
    /\ [][ pc = "close_on_esc" => UNCHANGED <<next_scene, current_scene, entities>> ]_vars

\* A release on the click-to-start screen, at the place of the main menu's Start
\* Game button, has entered the main menu: the button is there, the pointer is inside
\* it, it is not hovered and no game is requested.
C24_Witness ==
    /\ pc = "close_on_esc"
    /\ cycles = 1
    /\ released
    /\ current_scene = "MainMenu" /\ next_scene = "MainMenu"
    /\ Len(prev_hovered) = 1 + Len(click_to_start_entities)
    /\ \E i \in SceneChangeButtons :
          /\ entities[i].button_scene = "Game"
          /\ PointerInside(i)
          /\ ~entities[i].is_hovered

----------------------------------------------------------------------------
\* C25: playback always hands over to the player.  In the Game scene with
\* interactive = false and max_idx <= 254, every expiry of the timer either emits one
\* cue or, as expiry number max_idx + 2, switches to the input phase (interactive =
\* true, idx = 0); no other stage, whatever the pointer does, changes the state or the
\* timer during playback; and as long as frames keep coming the input phase is reached.
C25_HandOver ==
    /\ [][ PlaybackExpiry /\ state.max_idx <= 254
           => IF Len(cue_log) = state.max_idx + 1
              THEN state'.interactive /\ state'.idx = 0 /\ cue_log' = cue_log
              ELSE /\ ~state'.interactive
                   /\ Len(cue_log) < state.max_idx + 1
                   /\ Len(cue_log') = Len(cue_log) + 1 ]_vars
    /\ [][ InGame /\ ~state.interactive /\ pc # "pattern_playback_system"
           => UNCHANGED <<state, timer, cue_log, current_scene>> ]_vars
    /\ (InGame /\ ~state.interactive /\ state.max_idx <= 254)
          ~> ((InGame /\ state.interactive /\ state.idx = 0) \/ pc = "exited")

\* The playback of level 1 has handed over at its third expiry, in a frame with a
\* release and the pointer inside a pattern shape.
C25_Witness ==
    /\ pc = "user_game_system"
    /\ InGame
    /\ state.interactive /\ state.idx = 0 /\ state.max_idx = 1
    /\ timer.finished
    /\ Len(cue_log) = 2
    /\ released
    /\ \E i \in PatternShapes : PointerInside(i)

----------------------------------------------------------------------------
\* C26: the in-memory high score equals the persisted score (what load_score reads
\* from SAVE_PATH) at every frame boundary, indeed in every state; it starts as the
\* score loaded at startup and becomes, on each entry into the Score scene, the
\* maximum of itself and the max_idx of the playthrough that ended; it never
\* decreases and changes at no other point.
C26_HighScore ==
    /\ [](high_score = load_score(file))
    /\ [][ IF EntersScore
           THEN high_score' = IF state.max_idx > high_score THEN state.max_idx
                                                            ELSE high_score
           ELSE high_score' = high_score /\ file' = file ]_vars
    /\ [][ high_score' >= high_score ]_vars

\* A frame boundary in the Score scene after a playthrough that reached level 3: the
\* high score and the stored score are 3.
C26_Witness ==
    /\ FrameBoundary
    /\ current_scene = "Score"
    /\ state.max_idx = 3
    /\ high_score = 3
    /\ file = [exists |-> TRUE, text |-> << "3" >>]

====
